---- MODULE Spec2Model ----
(***************************************************************************)
(* ContentCraft server: the in-memory store (server/storage.ts, MemStorage) *)
(* and the HTTP handlers of registerRoutes that drive it, among them the    *)
(* content-generation pipeline POST /api/content/generate.                  *)
(***************************************************************************)
EXTENDS Integers, Sequences, FiniteSets, TLC

\* ----------------------------------------------------------------- bounds
\* Content records created in one run (caps currentContentId).
MaxContent == 2
\* Content records created in one run of SpecListing.
MaxListed == 4
\* Last instant of the clock read by `new Date()`.
MaxTime == 1
\* PUT /api/content/:id requests served in one run.
MaxUpdates == 1
\* Users, and templates besides the default ones, created in one run.
MaxCreated == 2

\* --------------------------------------------------------------- constants
\* `const userId = 1; // Mock user ID`
MockUserId == 1
\* a second owner id, only reachable through a PUT body that carries userId
OtherUserId == MockUserId + 1
\* a createdAt that `new Date(x)` cannot parse (a JSON string that is no date)
InvalidDate == -1

\* JavaScript numbers: a finite number or NaN
Number(n) == [nan |-> FALSE, v |-> n]
NaN == [nan |-> TRUE, v |-> 0]
IsNumber(x) == DOMAIN x = {"nan", "v"}
\* a value that is a string where a number was meant ("[object Object]1")
StringValue == [string |-> TRUE]
\* an object inherited through the prototype chain (Object.prototype, Object)
InheritedObject == [object |-> TRUE]

\* JavaScript's undefined (a missing key, a missing body field)
undefined == [undefined |-> TRUE]
Missing == "<undefined>"

Times == 0..MaxTime
Requests == {1, 2}

\* ---------------------------------------------------------------- state
VARIABLES
    users,             \* MemStorage.users: Map<number, User>, in insertion order
    currentUserId,     \* MemStorage.currentUserId
    contentTemplates,  \* MemStorage.contentTemplates: Map<number, ContentTemplate>
    currentTemplateId, \* MemStorage.currentTemplateId
    content,           \* MemStorage.content: Map<number, Content>, in insertion order
    currentContentId,  \* MemStorage.currentContentId
    now,               \* the clock `new Date()` reads
    req,               \* generation requests suspended on `await generateContent`
    res,               \* the response of the handler that ran last
    issued,            \* ids returned by createContent so far, in call order
    deleted,           \* ids for which deleteContent returned true
    updates,           \* PUT requests served so far
    formFiles,         \* ContentForm: const [files, setFiles] = useState<File[]>([])
    uploadFiles,       \* FileUpload: const [files, setFiles] = useState<File[]>([])
    mutation           \* ContentForm: generateContentMutation, idle or pending

\* the part of the store that holds no content records
usersAndTemplates == <<users, currentUserId, contentTemplates, currentTemplateId>>

\* the state of the browser's create-content page
client == <<formFiles, uploadFiles, mutation>>

\* the state of the server
server ==
    <<usersAndTemplates, content, currentContentId, now, req, res, issued, deleted, updates>>

vars == <<server, client>>

\* ------------------------------------------------------- objects and maps
\* `{ ...a, ...b }`: b's own keys win.
Spread(a, b) ==
    [f \in (DOMAIN a) \cup (DOMAIN b) |-> IF f \in DOMAIN b THEN b[f] ELSE a[f]]

\* Map.prototype.has / get / set / delete on a Map kept as the sequence of
\* its entries in insertion order.
MapKeys(m) == {m[i].k : i \in 1..Len(m)}

MapHas(m, key) == key \in MapKeys(m)

MapGet(m, key) ==
    IF MapHas(m, key)
    THEN m[CHOOSE i \in 1..Len(m) : m[i].k = key].v
    ELSE undefined

\* set() on a present key keeps the entry's position; a new key goes last.
MapSet(m, key, value) ==
    IF MapHas(m, key)
    THEN [i \in 1..Len(m) |-> IF m[i].k = key THEN [k |-> key, v |-> value] ELSE m[i]]
    ELSE Append(m, [k |-> key, v |-> value])

MapDelete(m, key) ==
    LET keep == {i \in 1..Len(m) : m[i].k # key}
        F[n \in 0..Len(m)] ==
            IF n = 0 THEN <<>>
            ELSE IF n \in keep THEN Append(F[n - 1], m[n]) ELSE F[n - 1]
    IN  F[Len(m)]

Range(s) == {s[i] : i \in 1..Len(s)}

\* Array.from(map.values())
MapValues(m) == [i \in 1..Len(m) |-> m[i].v]

\* Array.prototype.filter with the predicate given as the set of kept values
Filter(s, keep) ==
    LET F[n \in 0..Len(s)] ==
            IF n = 0 THEN <<>>
            ELSE IF s[n] \in keep THEN Append(F[n - 1], s[n]) ELSE F[n - 1]
    IN  F[Len(s)]

\* ------------------------------------------------------------ MemStorage
\* const defaultTemplates: InsertContentTemplate[]
defaultTemplates ==
    <<[name |-> "YouTube Tutorial", platform |-> "youtube", contentType |-> "script",
       template |-> "# {title}\n\n## Introduction\n{intro}\n\n## Main Content\n{content}\n\n## Conclusion\n{conclusion}\n\n## Call to Action\n{cta}",
       description |-> "Step-by-step tutorial format for YouTube videos"],
      [name |-> "Instagram Carousel", platform |-> "instagram", contentType |-> "carousel",
       template |-> "Slide 1: {hook}\nSlide 2: {point1}\nSlide 3: {point2}\nSlide 4: {point3}\nSlide 5: {cta}",
       description |-> "Multi-slide visual story for Instagram"],
      [name |-> "Twitter Thread", platform |-> "twitter", contentType |-> "thread",
       template |-> "1/ {hook}\n\n2/ {point1}\n\n3/ {point2}\n\n4/ {point3}\n\n5/ {conclusion}",
       description |-> "Multi-tweet storytelling format"],
      [name |-> "Facebook Post", platform |-> "facebook", contentType |-> "post",
       template |-> "{hook}\n\n{content}\n\n{cta}\n\n{hashtags}",
       description |-> "Engaging Facebook post format"],
      [name |-> "LinkedIn Article", platform |-> "linkedin", contentType |-> "article",
       template |-> "# {title}\n\n{intro}\n\n## Key Points\n{points}\n\n## Conclusion\n{conclusion}",
       description |-> "Professional LinkedIn article format"],
      [name |-> "TikTok Script", platform |-> "tiktok", contentType |-> "script",
       template |-> "Hook (0-3s): {hook}\nContent (3-15s): {content}\nCTA (15-30s): {cta}",
       description |-> "Short-form video script for TikTok"]>>

\* a createContentTemplate that replaces the template of the same platform
\* and content type, if the map holds one
WithContentTemplateReplacing(store, insertTemplate) ==
    LET same == {i \in 1..Len(store.map) :
                    /\ store.map[i].v.platform = insertTemplate.platform
                    /\ store.map[i].v.contentType = insertTemplate.contentType}
        id == IF same = {} THEN store.next ELSE store.map[CHOOSE i \in same : TRUE].k
    IN  [map  |-> MapSet(store.map, id, Spread(insertTemplate, [id |-> id])),
         next |-> IF same = {} THEN store.next + 1 ELSE store.next]

\* the body of createContentTemplate on a template map and its counter:
\* const id = this.currentTemplateId++; this.contentTemplates.set(id, { ...insertTemplate, id })
WithContentTemplate(store, insertTemplate) ==
    [map  |-> MapSet(store.map, store.next, Spread(insertTemplate, [id |-> store.next])),
     next |-> store.next + 1]

\* private initializeTemplates(), run by the constructor on the empty map
\* with currentTemplateId = 1
initializeTemplates ==
    LET F[n \in 0..Len(defaultTemplates)] ==
            IF n = 0 THEN [map |-> <<>>, next |-> 1]
            ELSE WithContentTemplate(F[n - 1], defaultTemplates[n])
    IN  F[Len(defaultTemplates)]

\* a createUser that takes its id from the template counter
createUserFromTemplateCounter(insertUser) ==
    /\ users' = MapSet(users, currentTemplateId, Spread(insertUser, [id |-> currentTemplateId]))
    /\ currentTemplateId' = currentTemplateId + 1
    /\ UNCHANGED <<currentUserId, contentTemplates>>

\* async createUser(insertUser); returns the record stored
createUser(insertUser) ==
    /\ users' = MapSet(users, currentUserId, Spread(insertUser, [id |-> currentUserId]))
    /\ currentUserId' = currentUserId + 1
    /\ UNCHANGED <<contentTemplates, currentTemplateId>>

\* async createContentTemplate(insertTemplate); returns the record stored
createContentTemplate(insertTemplate) ==
    LET store == WithContentTemplate([map |-> contentTemplates, next |-> currentTemplateId],
                                     insertTemplate)
    IN  /\ contentTemplates' = store.map
        /\ currentTemplateId' = store.next
        /\ UNCHANGED <<users, currentUserId>>

\* async getUser(id)
getUser(id) == IF MapHas(users, id) THEN MapGet(users, id) ELSE undefined

\* async getUserByUsername(username): Array.from(values).find(...)
getUserByUsername(username) ==
    LET found == {i \in 1..Len(users) : users[i].v.username = username}
    IN  IF found = {} THEN undefined
        ELSE users[CHOOSE i \in found : \A j \in found : i <= j].v

\* async getContentTemplates()
getContentTemplates == MapValues(contentTemplates)

\* async getContentTemplatesByPlatform(platform)
getContentTemplatesByPlatform(platform) ==
    Filter(MapValues(contentTemplates),
           {t \in Range(MapValues(contentTemplates)) : t.platform = platform})

\* async getContent(id)
getContent(id) == MapGet(content, id)

\* new Date(x).getTime(): NaN for an Invalid Date
getTime(d) == IF d = InvalidDate THEN NaN ELSE Number(d)

Minus(x, y) == IF x.nan \/ y.nan THEN NaN ELSE Number(x.v - y.v)

\* (a, b) => new Date(b.createdAt).getTime() - new Date(a.createdAt).getTime()
comparefn(a, b) == Minus(getTime(b.createdAt), getTime(a.createdAt))

\* ECMAScript SortCompare: a NaN result of comparefn counts as +0
SortCompare(a, b) == LET v == comparefn(a, b) IN IF v.nan THEN 0 ELSE v.v

\* ECMAScript "consistent comparator" for the elements of s
ConsistentComparator(s) ==
    \A i, j, k \in 1..Len(s) :
        /\ (SortCompare(s[i], s[j]) = 0 /\ SortCompare(s[j], s[k]) = 0)
               => SortCompare(s[i], s[k]) = 0
        /\ (SortCompare(s[i], s[j]) < 0 /\ SortCompare(s[j], s[k]) < 0)
               => SortCompare(s[i], s[k]) < 0
        /\ (SortCompare(s[i], s[j]) > 0 /\ SortCompare(s[j], s[k]) > 0)
               => SortCompare(s[i], s[k]) > 0

\* x goes after every element that does not sort after it (stable)
InsertSorted(sorted, x) ==
    LET p == Cardinality({i \in 1..Len(sorted) : SortCompare(sorted[i], x) <= 0})
    IN  SubSeq(sorted, 1, p) \o <<x>> \o SubSeq(sorted, p + 1, Len(sorted))

\* Array.prototype.sort with a consistent comparator: the stable sort
StableSort(s) ==
    LET F[n \in 0..Len(s)] == IF n = 0 THEN <<>> ELSE InsertSorted(F[n - 1], s[n])
    IN  F[Len(s)]

Orderings(s) ==
    {[i \in 1..Len(s) |-> s[p[i]]] :
        p \in {q \in [1..Len(s) -> 1..Len(s)] : \A i, j \in 1..Len(s) : q[i] = q[j] => i = j}}

\* Array.prototype.sort: with an inconsistent comparator the order is
\* implementation-defined, any permutation of the elements
Sort(s) == IF ConsistentComparator(s) THEN {StableSort(s)} ELSE Orderings(s)

\* .filter(content => content.userId === userId)
OwnedBy(userId) == {c \in Range(MapValues(content)) : c.userId = userId}

\* async getContentByUserId(userId): the arrays the call can return
getContentByUserId(userId) == Sort(Filter(MapValues(content), OwnedBy(userId)))

\* platformCounts[key] read on an object literal: an own property, else what
\* Object.prototype supplies, else undefined
ObjectPrototypeKeys == {"__proto__", "constructor"}

PropertyGet(obj, key) ==
    IF key \in DOMAIN obj THEN obj[key]
    ELSE IF key \in ObjectPrototypeKeys THEN InheritedObject
    ELSE undefined

\* (x || 0) + 1: a number stays a number, anything else truthy concatenates
OrZeroPlusOne(x) ==
    IF x = undefined THEN Number(1)
    ELSE IF IsNumber(x) THEN (IF x.nan THEN Number(1) ELSE Number(x.v + 1))
    ELSE StringValue

\* platformCounts[key] = value: the __proto__ setter ignores a string
PropertySet(obj, key, value) ==
    IF key = "__proto__" /\ ~(key \in DOMAIN obj)
    THEN obj
    ELSE [f \in (DOMAIN obj) \cup {key} |-> IF f = key THEN value ELSE obj[f]]

\* the empty object literal {}
EmptyObject == [f \in {} |-> Number(0)]

\* userContent.forEach(content => { platformCounts[content.platform] = ... })
PlatformCounts(userContent) ==
    LET F[n \in 0..Len(userContent)] ==
            IF n = 0 THEN EmptyObject
            ELSE PropertySet(F[n - 1], userContent[n].platform,
                             OrZeroPlusOne(PropertyGet(F[n - 1], userContent[n].platform)))
    IN  F[Len(userContent)]

\* the object getContentStats returns for the array getContentByUserId gave
StatsOf(userContent) ==
    [totalContent |-> Len(userContent),
     aiGenerated  |-> Len(userContent),
     platforms    |-> Cardinality(DOMAIN PlatformCounts(userContent)),
     byPlatform   |-> PlatformCounts(userContent)]

\* async getContentStats(userId): the objects the call can return
getContentStats(userId) == {StatsOf(l) : l \in getContentByUserId(userId)}

\* the id taken from the size of the map instead of the counter
NextContentIdFromSize == Len(content) + 1

\* const id = this.currentContentId++
NextContentId == currentContentId

\* { ...insertContent, id, createdAt: new Date() }
NewContent(insertContent, t) ==
    Spread(insertContent, [id |-> NextContentId, createdAt |-> t])

\* the record stored under the counter's value after the increment
createContentUnderNextKey(insertContent, t) ==
    /\ t \in now..MaxTime
    /\ now' = t
    /\ currentContentId' = currentContentId + 1
    /\ content' = MapSet(content, currentContentId + 1, NewContent(insertContent, t))
    /\ issued' = Append(issued, NewContent(insertContent, t).id)

\* a createContent whose increment of the counter is lost
createContentLostIncrement(insertContent, t) ==
    /\ t \in now..MaxTime
    /\ now' = t
    /\ currentContentId' = currentContentId
    /\ content' = MapSet(content, NextContentId, NewContent(insertContent, t))
    /\ issued' = Append(issued, NewContent(insertContent, t).id)

\* async createContent(insertContent), the clock reading t; returns NewContent
createContent(insertContent, t) ==
    /\ t \in now..MaxTime
    /\ now' = t
    /\ currentContentId' = currentContentId + 1
    /\ content' = MapSet(content, NextContentId, NewContent(insertContent, t))
    /\ issued' = Append(issued, NewContent(insertContent, t).id)

\* the body stored in place of the record, no field of the record kept
Replaced(id, body) == Spread([id |-> getContent(id).id], body)

\* { ...existing, ...updates }
Updated(id, body) == Spread(getContent(id), body)

\* an update that stores the body under an id the map does not hold
updateContentOrCreate(id, body) ==
    IF getContent(id) = undefined
    THEN content' = MapSet(content, id, Spread(body, [id |-> id]))
    ELSE content' = MapSet(content, id, Updated(id, body))

\* async updateContent(id, updates); returns Updated or undefined
updateContent(id, body) ==
    IF getContent(id) = undefined
    THEN content' = content
    ELSE content' = MapSet(content, id, Updated(id, body))

\* a delete that empties the map when the key was present
deleteContentAndOthers(id) ==
    /\ content' = IF MapHas(content, id) THEN <<>> ELSE content
    /\ deleted' = IF MapHas(content, id) THEN deleted \cup {id} ELSE deleted

\* async deleteContent(id): Map.delete, true when the key was present
deleteContent(id) ==
    /\ content' = MapDelete(content, id)
    /\ deleted' = IF MapHas(content, id) THEN deleted \cup {id} ELSE deleted

\* ------------------------------------------------------------- inputs
\* multipart bodies of POST /api/content/generate, images being req.files:
\* the complete one, the complete one with one field absent or empty, and
\* one with another brief and an uploaded image
CompleteBody ==
    [platform |-> "youtube", contentType |-> "script", brief |-> "B", images |-> <<>>]

BodyWithImage == [CompleteBody EXCEPT !.brief = "B2", !.images = <<"image/png">>]

GenerateBodies ==
    {CompleteBody, BodyWithImage}
        \cup {[CompleteBody EXCEPT ![f] = v] :
                  f \in {"platform", "contentType", "brief"}, v \in {Missing, ""}}

\* a string as the sequence of its characters
Whitespace == {" "}

\* text.split(/\s+/) without the empty strings: the whitespace-delimited tokens
SplitOnWhitespace(text) ==
    LET F[n \in 0..Len(text)] ==
            IF n = 0 THEN <<>>
            ELSE IF text[n] \in Whitespace THEN F[n - 1]
            ELSE IF n = 1 \/ text[n - 1] \in Whitespace
                 THEN Append(F[n - 1], <<text[n]>>)
                 ELSE [F[n - 1] EXCEPT ![Len(F[n - 1])] = Append(@, text[n])]
    IN  F[Len(text)]

\* what the provider answers, parsed: the counts it reports may be right,
\* wrong or absent
ProviderResponses ==
    {[title |-> "GT", content |-> <<"G", "C">>, hashtags |-> <<"#g">>,
      metadata |-> [wordCount |-> 1, characterCount |-> 2, tone |-> "Casual"]],
     [title |-> "GT", content |-> <<" ", "a", " ", " ", "b">>, hashtags |-> <<"#g">>,
      metadata |-> [wordCount |-> 7, characterCount |-> 0, targetAudience |-> "Teens"]]}

\* the value of a provider field, or the default when the provider left it out
OrDefault(obj, key, default) == IF key \in DOMAIN obj THEN obj[key] ELSE default

\* generateContent's output normalization: the provider's fields, the
\* defaults for absent ones, both counts computed from the content
generateContent(response) ==
    [title |-> response.title, content |-> response.content,
     hashtags |-> response.hashtags,
     metadata |-> [wordCount |-> Len(SplitOnWhitespace(response.content)),
                   characterCount |-> Len(response.content),
                   tone |-> OrDefault(response.metadata, "tone", "Professional"),
                   targetAudience |->
                       OrDefault(response.metadata, "targetAudience", "General")]]

\* what generateContent resolves to
GeneratedContents == {generateContent(response) : response \in ProviderResponses}

\* JSON bodies of POST /api/content
PostBodies ==
    {[title |-> "T", platform |-> "twitter", contentType |-> "thread",
      brief |-> "B", generatedContent |-> "G"],
     [title |-> "T", platform |-> "__proto__", contentType |-> "thread",
      brief |-> "B", generatedContent |-> "G",
      id |-> 0, createdAt |-> InvalidDate, userId |-> OtherUserId],
     [platform |-> "twitter", brief |-> "B"]}

\* JSON bodies of PUT /api/content/:id
UpdateBodies ==
    {[title |-> "T2"], [id |-> 0, userId |-> OtherUserId], [createdAt |-> InvalidDate]}

\* arguments of createUser
InsertUsers ==
    {[username |-> "ann", password |-> "pw"], [username |-> "bob", password |-> "pw"]}

\* arguments of createContentTemplate besides the default templates
InsertTemplates ==
    {[name |-> "Custom", platform |-> "youtube", contentType |-> "script",
      template |-> "{hook}", description |-> "A template of the caller"]}

\* ------------------------------------------------------------- schema
\* insertContentSchema: the content columns without id and createdAt
InsertContentKeys ==
    {"userId", "title", "description", "platform", "contentType", "brief",
     "generatedContent", "images", "metadata"}

\* the notNull columns without a default
RequiredContentKeys ==
    {"userId", "title", "platform", "contentType", "brief", "generatedContent"}

\* insertContentSchema.parse throws unless every required key is there
ParseSucceeds(data) == RequiredContentKeys \subseteq DOMAIN data

\* insertContentSchema.parse strips the keys the schema does not know
Parse(data) == [f \in (DOMAIN data) \cap InsertContentKeys |-> data[f]]

\* ------------------------------------------------------------- routes
\* what a handler answered: the route, its input (the :id or the body), the
\* status and the JSON sent; for the generation route also how often the
\* handler called generateContent, how that call ended and what it resolved to
Response(op, arg, status, body) ==
    [op |-> op, arg |-> arg, status |-> status, body |-> body,
     calls |-> 0, provider |-> "none", result |-> undefined]

GenerateResponse(arg, status, body, calls, provider) ==
    [op |-> "POST /api/content/generate", arg |-> arg, status |-> status,
     body |-> body, calls |-> calls, provider |-> provider, result |-> undefined]

NoResponse == Response("none", 0, 0, undefined)

Error(message) == [error |-> message]

Idle == [state |-> "Idle"]

\* a listing that leaves the map in the order of the array it returned
GetContentListSortingMap ==
    /\ \E list \in getContentByUserId(MockUserId) :
           /\ res' = Response("GET /api/content", 0, 200, list)
           /\ content' = [i \in 1..Len(list) |-> [k |-> list[i].id, v |-> list[i]]]
    /\ UNCHANGED <<client, usersAndTemplates, currentContentId, now, req,
                   issued, deleted, updates>>

\* app.get("/api/content")
GetContentList ==
    /\ \E list \in getContentByUserId(MockUserId) :
           res' = Response("GET /api/content", 0, 200, list)
    /\ UNCHANGED <<client, usersAndTemplates, content, currentContentId, now, req,
                   issued, deleted, updates>>

\* the handler without its `if (!content)` branch
GetContentByIdUnchecked(id) ==
    /\ res' = Response("GET /api/content/:id", id, 200, getContent(id))
    /\ UNCHANGED <<client, usersAndTemplates, content, currentContentId, now, req,
                   issued, deleted, updates>>

\* app.get("/api/content/:id")
GetContentById(id) ==
    /\ res' = IF getContent(id) = undefined
              THEN Response("GET /api/content/:id", id, 404, Error("Content not found"))
              ELSE Response("GET /api/content/:id", id, 200, getContent(id))
    /\ UNCHANGED <<client, usersAndTemplates, content, currentContentId, now, req,
                   issued, deleted, updates>>

\* app.post("/api/content")
PostContent(body, t) ==
    LET data == Spread(body, [userId |-> MockUserId])
    IN  IF ParseSucceeds(data)
        THEN /\ createContent(Parse(data), t)
             /\ res' = Response("POST /api/content", 0, 201, NewContent(Parse(data), t))
             /\ UNCHANGED <<client, usersAndTemplates, req, deleted, updates>>
        ELSE /\ res' = Response("POST /api/content", 0, 400, Error("Invalid content data"))
             /\ UNCHANGED <<client, usersAndTemplates, content, currentContentId, now, req,
                            issued, deleted, updates>>

\* app.put("/api/content/:id")
PutContent(id, body) ==
    /\ updates' = updates + 1
    /\ updateContent(id, body)
    /\ res' = IF getContent(id) = undefined
              THEN Response("PUT /api/content/:id", [id |-> id, updates |-> body], 404,
                            Error("Content not found"))
              ELSE Response("PUT /api/content/:id", [id |-> id, updates |-> body], 200,
                            Updated(id, body))
    /\ UNCHANGED <<client, usersAndTemplates, currentContentId, now, req, issued, deleted>>

\* app.delete("/api/content/:id")
DeleteContentById(id) ==
    /\ deleteContent(id)
    /\ res' = IF MapHas(content, id)
              THEN Response("DELETE /api/content/:id", id, 204, undefined)
              ELSE Response("DELETE /api/content/:id", id, 404, Error("Content not found"))
    /\ UNCHANGED <<client, usersAndTemplates, currentContentId, now, req, issued, updates>>

\* app.get("/api/analytics/stats")
GetStats ==
    /\ \E stats \in getContentStats(MockUserId) :
           res' = Response("GET /api/analytics/stats", 0, 200, stats)
    /\ UNCHANGED <<client, usersAndTemplates, content, currentContentId, now, req,
                   issued, deleted, updates>>

\* !x for a body field: undefined and "" are falsy
Falsy(x) == x = Missing \/ x = ""

\* app.get("/api/templates"), platform being req.query.platform
GetTemplates(platform) ==
    /\ res' = Response("GET /api/templates", platform, 200,
                       IF platform = Missing \/ platform = ""
                       THEN getContentTemplates
                       ELSE getContentTemplatesByPlatform(platform))
    /\ UNCHANGED <<client, usersAndTemplates, content, currentContentId, now, req,
                   issued, deleted, updates>>

\* the handler without its `if (!req.file)` branch: reading the buffer of a
\* missing file throws inside the try block
AnalyzeImageUnchecked(file, resolves) ==
    /\ res' = IF file # Missing /\ resolves
              THEN Response("POST /api/images/analyze", file, 200, [analysis |-> "A"])
              ELSE Response("POST /api/images/analyze", file, 500,
                            Error("Failed to analyze image: "))
    /\ UNCHANGED <<client, usersAndTemplates, content, currentContentId, now, req,
                   issued, deleted, updates>>

\* app.post("/api/images/analyze"), file being req.file and resolves telling
\* whether analyzeImage resolved; the handler shares no state with another
\* one, so its two halves are taken as one step
AnalyzeImage(file, resolves) ==
    /\ res' = IF file = Missing
              THEN Response("POST /api/images/analyze", file, 400,
                            Error("No image file provided"))
              ELSE IF resolves
              THEN Response("POST /api/images/analyze", file, 200, [analysis |-> "A"])
              ELSE Response("POST /api/images/analyze", file, 500,
                            Error("Failed to analyze image: "))
    /\ UNCHANGED <<client, usersAndTemplates, content, currentContentId, now, req,
                   issued, deleted, updates>>

\* app.post("/api/content/optimize"), resolves telling whether
\* optimizeContentForPlatform resolved
OptimizeContent(body, resolves) ==
    /\ res' = IF Falsy(body.content) \/ Falsy(body.fromPlatform) \/ Falsy(body.toPlatform)
              THEN Response("POST /api/content/optimize", body, 400,
                       Error("Missing required fields: content, fromPlatform, toPlatform"))
              ELSE IF resolves
              THEN Response("POST /api/content/optimize", body, 200,
                            [optimizedContent |-> "O"])
              ELSE Response("POST /api/content/optimize", body, 500,
                            Error("Failed to optimize content: "))
    /\ UNCHANGED <<client, usersAndTemplates, content, currentContentId, now, req,
                   issued, deleted, updates>>

\* a caller of MemStorage.getUser (no route calls it)
GetUser(id) ==
    /\ res' = Response("getUser", id, 0, getUser(id))
    /\ UNCHANGED <<client, usersAndTemplates, content, currentContentId, now, req,
                   issued, deleted, updates>>

\* a caller of MemStorage.getUserByUsername (no route calls it)
GetUserByUsername(username) ==
    /\ res' = Response("getUserByUsername", username, 0, getUserByUsername(username))
    /\ UNCHANGED <<client, usersAndTemplates, content, currentContentId, now, req,
                   issued, deleted, updates>>

\* the condition without its `!brief`
RequiredFieldsPresentButBrief(body) ==
    ~(Falsy(body.platform) \/ Falsy(body.contentType))

\* if (!platform || !contentType || !brief) return res.status(400)
RequiredFieldsPresent(body) ==
    ~(Falsy(body.platform) \/ Falsy(body.contentType) \/ Falsy(body.brief))

\* a handler that stores a draft of the request before it calls the provider
GenerateSavingDraft(r, body) ==
    /\ req[r] = Idle
    /\ IF RequiredFieldsPresent(body)
       THEN /\ req' = [req EXCEPT ![r] = [state |-> "Invoking", body |-> body, calls |-> 1]]
            /\ res' = NoResponse
            /\ createContent([userId |-> MockUserId, title |-> "", description |-> body.brief,
                              platform |-> body.platform, contentType |-> body.contentType,
                              brief |-> body.brief, generatedContent |-> "",
                              images |-> <<>>], now)
       ELSE /\ res' = GenerateResponse(body, 400,
                   Error("Missing required fields: platform, contentType, brief"), 0, "none")
            /\ req' = req
            /\ UNCHANGED <<client, usersAndTemplates, content, currentContentId, now, issued>>
    /\ UNCHANGED <<client, usersAndTemplates, deleted, updates>>

\* a handler whose 400 branch lacks its `return` and goes on to the provider
GenerateAnsweringAndContinuing(r, body) ==
    /\ req[r] = Idle
    /\ req' = [req EXCEPT ![r] = [state |-> "Invoking", body |-> body, calls |-> 1]]
    /\ res' = IF RequiredFieldsPresent(body) THEN NoResponse
              ELSE GenerateResponse(body, 400,
                       Error("Missing required fields: platform, contentType, brief"),
                       0, "none")
    /\ UNCHANGED <<client, usersAndTemplates, content, currentContentId, now,
                   issued, deleted, updates>>

\* a handler that takes the id of its record before it calls the provider
GenerateReservingId(r, body) ==
    /\ req[r] = Idle
    /\ IF RequiredFieldsPresent(body)
       THEN /\ req' = [req EXCEPT ![r] = [state |-> "Invoking", body |-> body, calls |-> 1]]
            /\ res' = NoResponse
            /\ currentContentId' = currentContentId + 1
       ELSE /\ res' = GenerateResponse(body, 400,
                   Error("Missing required fields: platform, contentType, brief"), 0, "none")
            /\ req' = req
            /\ currentContentId' = currentContentId
    /\ UNCHANGED <<client, usersAndTemplates, content, now, issued, deleted, updates>>

\* app.post("/api/content/generate"), up to `await generateContent(...)`
Generate(r, body) ==
    /\ req[r] = Idle
    /\ IF RequiredFieldsPresent(body)
       THEN /\ req' = [req EXCEPT ![r] = [state |-> "Invoking", body |-> body, calls |-> 1]]
            /\ res' = NoResponse
       ELSE /\ res' = GenerateResponse(body, 400,
                   Error("Missing required fields: platform, contentType, brief"), 0, "none")
            /\ req' = req
    /\ UNCHANGED <<client, usersAndTemplates, content, currentContentId, now, issued, deleted, updates>>

\* a record that keeps the uploaded images
GeneratedRecordKeepingImages(body, generated) ==
    [userId |-> MockUserId, title |-> generated.title, description |-> body.brief,
     platform |-> body.platform, contentType |-> body.contentType, brief |-> body.brief,
     generatedContent |-> generated.content, images |-> body.images,
     metadata |-> generated.metadata]

\* a record whose metadata is a placeholder with both counts at zero
GeneratedRecordPlaceholderMetadata(body, generated) ==
    [userId |-> MockUserId, title |-> generated.title, description |-> body.brief,
     platform |-> body.platform, contentType |-> body.contentType, brief |-> body.brief,
     generatedContent |-> generated.content, images |-> <<>>,
     metadata |-> [generated.metadata EXCEPT !.wordCount = 0, !.characterCount = 0]]

\* the record the handler hands to storage.createContent
GeneratedRecord(body, generated) ==
    [userId |-> MockUserId, title |-> generated.title, description |-> body.brief,
     platform |-> body.platform, contentType |-> body.contentType, brief |-> body.brief,
     generatedContent |-> generated.content, images |-> <<>>,
     metadata |-> generated.metadata]

\* a handler that answers with the stored record of an equal request, if
\* the map holds one, instead of saving another
ProviderReturnsDeduplicating(r, generated, t) ==
    LET same == {k \in MapKeys(content) :
                    /\ MapGet(content, k).brief = req[r].body.brief
                    /\ MapGet(content, k).platform = req[r].body.platform
                    /\ MapGet(content, k).contentType = req[r].body.contentType}
    IN  /\ req[r].state = "Invoking"
        /\ IF same = {}
           THEN /\ createContent(GeneratedRecord(req[r].body, generated), t)
                /\ res' = [GenerateResponse(req[r].body, 200,
                               Spread([id |-> NextContentId], generated),
                               req[r].calls, "resolved") EXCEPT !.result = generated]
           ELSE /\ res' = [GenerateResponse(req[r].body, 200,
                               Spread([id |-> CHOOSE k \in same : TRUE], generated),
                               req[r].calls, "resolved") EXCEPT !.result = generated]
                /\ UNCHANGED <<client, usersAndTemplates, content, currentContentId, now, issued>>
        /\ req' = [req EXCEPT ![r] = Idle]
        /\ UNCHANGED <<client, usersAndTemplates, deleted, updates>>

\* a handler that answers with the counter's value instead of the saved id
ProviderReturnsCounter(r, generated, t) ==
    /\ req[r].state = "Invoking"
    /\ createContent(GeneratedRecord(req[r].body, generated), t)
    /\ res' = [GenerateResponse(req[r].body, 200,
                   Spread([id |-> currentContentId + 1], generated),
                   req[r].calls, "resolved") EXCEPT !.result = generated]
    /\ req' = [req EXCEPT ![r] = Idle]
    /\ UNCHANGED <<client, usersAndTemplates, deleted, updates>>

\* generateContent resolved: save to storage, res.json({ id, ...generatedContent })
ProviderReturns(r, generated, t) ==
    /\ req[r].state = "Invoking"
    /\ createContent(GeneratedRecord(req[r].body, generated), t)
    /\ res' = [GenerateResponse(req[r].body, 200,
                   Spread([id |-> NewContent(GeneratedRecord(req[r].body, generated), t).id],
                          generated),
                   req[r].calls, "resolved") EXCEPT !.result = generated]
    /\ req' = [req EXCEPT ![r] = Idle]
    /\ UNCHANGED <<client, usersAndTemplates, deleted, updates>>

\* a catch block that stores the failed request before answering 500
ProviderThrowsAndSaves(r) ==
    /\ req[r].state = "Invoking"
    /\ \E t \in Times :
           createContent([userId |-> MockUserId, title |-> "", description |-> req[r].body.brief,
                          platform |-> req[r].body.platform,
                          contentType |-> req[r].body.contentType,
                          brief |-> req[r].body.brief, generatedContent |-> "",
                          images |-> <<>>], t)
    /\ res' = GenerateResponse(req[r].body, 500, Error("Failed to generate content: "),
                               req[r].calls, "rejected")
    /\ req' = [req EXCEPT ![r] = Idle]
    /\ UNCHANGED <<client, usersAndTemplates, deleted, updates>>

\* a catch block that calls generateContent once more before giving up
ProviderThrowsAndRetries(r) ==
    /\ req[r].state = "Invoking"
    /\ IF req[r].calls = 1
       THEN /\ req' = [req EXCEPT ![r].calls = 2]
            /\ res' = NoResponse
       ELSE /\ res' = GenerateResponse(req[r].body, 500,
                                       Error("Failed to generate content: "),
                                       req[r].calls, "rejected")
            /\ req' = [req EXCEPT ![r] = Idle]
    /\ UNCHANGED <<client, usersAndTemplates, content, currentContentId, now, issued, deleted, updates>>

\* a handler that races the provider against a timer and answers 500 when
\* the timer wins
ProviderThrowsOrTimesOut(r) ==
    /\ req[r].state = "Invoking"
    /\ \E provider \in {"rejected", "none"} :
           res' = GenerateResponse(req[r].body, 500, Error("Failed to generate content: "),
                                   req[r].calls, provider)
    /\ req' = [req EXCEPT ![r] = Idle]
    /\ UNCHANGED <<client, usersAndTemplates, content, currentContentId, now,
                   issued, deleted, updates>>

\* a rejection that ends every request in flight with it, as an uncaught
\* error that stops the process would
ProviderThrowsAbortingOthers(r) ==
    /\ req[r].state = "Invoking"
    /\ res' = GenerateResponse(req[r].body, 500, Error("Failed to generate content: "),
                               req[r].calls, "rejected")
    /\ req' = [q \in Requests |-> Idle]
    /\ UNCHANGED <<client, usersAndTemplates, content, currentContentId, now,
                   issued, deleted, updates>>

\* generateContent rejected: the catch block answers 500
ProviderThrows(r) ==
    /\ req[r].state = "Invoking"
    /\ res' = GenerateResponse(req[r].body, 500, Error("Failed to generate content: "),
                               req[r].calls, "rejected")
    /\ req' = [req EXCEPT ![r] = Idle]
    /\ UNCHANGED <<client, usersAndTemplates, content, currentContentId, now, issued, deleted, updates>>

\* ------------------------------------------------------ specification
\* new MemStorage(), no request served yet
Init ==
    /\ users = <<>>
    /\ currentUserId = 1
    /\ contentTemplates = initializeTemplates.map
    /\ currentTemplateId = initializeTemplates.next
    /\ content = <<>>
    /\ currentContentId = 1
    /\ now = 0
    /\ req = [r \in Requests |-> Idle]
    /\ res = NoResponse
    /\ issued = <<>>
    /\ deleted = {}
    /\ updates = 0
    /\ formFiles = <<>>
    /\ uploadFiles = <<>>
    /\ mutation = [status |-> "idle"]

\* the handlers of the content CRUD routes and of the analytics route
StoreRequest(maxContent) ==
    \/ GetContentList
    \/ \E id \in 0..maxContent : GetContentById(id)
    \/ \E body \in PostBodies, t \in Times :
           currentContentId <= maxContent /\ PostContent(body, t)
    \/ \E id \in 0..maxContent, body \in UpdateBodies :
           updates < MaxUpdates /\ PutContent(id, body)
    \/ \E id \in 0..maxContent : DeleteContentById(id)
    \/ GetStats

\* the handler of the generation route, before and after its await
PipelineRequest ==
    \/ \E r \in Requests, body \in GenerateBodies : Generate(r, body)
    \/ \E r \in Requests, generated \in GeneratedContents, t \in Times :
           currentContentId <= MaxContent /\ ProviderReturns(r, generated, t)
    \/ \E r \in Requests : ProviderThrows(r)

\* the whole server
Next == StoreRequest(MaxContent) \/ PipelineRequest

Spec == Init /\ [][Next]_vars

\* the store behind the CRUD routes alone
NextStore == StoreRequest(MaxContent)

SpecStore == Init /\ [][NextStore]_vars

\* the generation pipeline, with the routes that read and delete its records
NextPipeline ==
    \/ PipelineRequest
    \/ \E id \in 0..MaxContent : GetContentById(id)
    \/ \E id \in 0..MaxContent : DeleteContentById(id)

SpecPipeline == Init /\ [][NextPipeline]_vars

\* the provider answers the call of request r, one way or the other
ProviderAnswers(r) ==
    \/ \E generated \in GeneratedContents :
           currentContentId <= MaxContent /\ ProviderReturns(r, generated, now)
    \/ ProviderThrows(r)

\* requests with a complete body and their provider's answers, the clock
\* standing still, and the route that deletes their records
NextPending ==
    \/ \E r \in Requests : Generate(r, CompleteBody)
    \/ \E r \in Requests : ProviderAnswers(r)
    \/ \E id \in 1..MaxContent : DeleteContentById(id)

\* the pipeline with a provider that answers every call in the end; the
\* continuation of the handler runs as soon as the promise settles
SpecPipelineFair ==
    /\ Init
    /\ [][NextPending]_vars
    /\ \A r \in Requests : WF_vars(ProviderAnswers(r))

\* creating, updating and listing, with room for MaxListed records
NextListing ==
    \/ GetContentList
    \/ \E body \in PostBodies, t \in Times :
           currentContentId <= MaxListed /\ PostContent(body, t)
    \/ \E id \in 1..MaxListed, body \in UpdateBodies :
           updates < MaxUpdates /\ PutContent(id, body)

SpecListing == Init /\ [][NextListing]_vars

\* every route that reads or writes the content map, with one generation
\* request at a time and without uploads, title updates only and the clock
\* standing still
NextRoutes ==
    \/ GetContentList
    \/ GetStats
    \/ \E id \in 0..MaxContent : GetContentById(id)
    \/ \E body \in PostBodies : currentContentId <= MaxContent /\ PostContent(body, now)
    \/ \E id \in 0..MaxContent :
           updates < MaxUpdates /\ PutContent(id, [title |-> "T2"])
    \/ \E id \in 0..MaxContent : DeleteContentById(id)
    \/ \E body \in GenerateBodies \ {BodyWithImage} : Generate(1, body)
    \/ \E generated \in GeneratedContents :
           currentContentId <= MaxContent /\ ProviderReturns(1, generated, now)
    \/ ProviderThrows(1)

SpecRoutes == Init /\ [][NextRoutes]_vars

\* the routes that can fail, two generation requests at a time: a body that
\* passes validation and one that does not, ids that exist and ids that do
\* not, a provider that resolves or rejects
NextFailures ==
    \/ \E r \in Requests, body \in {CompleteBody, [CompleteBody EXCEPT !.brief = ""]} :
           Generate(r, body)
    \/ \E r \in Requests : ProviderAnswers(r)
    \/ \E body \in PostBodies : currentContentId <= MaxContent /\ PostContent(body, now)
    \/ \E id \in 0..MaxContent :
           updates < MaxUpdates /\ PutContent(id, [title |-> "T2"])
    \/ \E id \in 0..MaxContent : DeleteContentById(id)
    \/ \E id \in 0..MaxContent : GetContentById(id)

SpecFailures == Init /\ [][NextFailures]_vars

\* a caller of MemStorage.createUser (no route calls it)
CreateUser(insertUser) ==
    /\ createUser(insertUser)
    /\ res' = Response("createUser", insertUser, 0, MapGet(users', currentUserId' - 1))
    /\ UNCHANGED <<client, content, currentContentId, now, req, issued, deleted, updates>>

\* a caller of MemStorage.createContentTemplate after construction
CreateContentTemplate(insertTemplate) ==
    /\ createContentTemplate(insertTemplate)
    /\ res' = Response("createContentTemplate", insertTemplate, 0,
                       MapGet(contentTemplates', currentTemplateId' - 1))
    /\ UNCHANGED <<client, content, currentContentId, now, req, issued, deleted, updates>>

\* the three create operations of MemStorage, createContent through both of
\* its routes, and the delete of content
NextCounters ==
    \/ \E insertUser \in InsertUsers :
           currentUserId <= MaxCreated /\ CreateUser(insertUser)
    \/ \E insertTemplate \in InsertTemplates :
           /\ Len(contentTemplates) < Len(defaultTemplates) + MaxCreated
           /\ CreateContentTemplate(insertTemplate)
    \/ \E body \in PostBodies : currentContentId <= MaxContent /\ PostContent(body, now)
    \/ Generate(1, CompleteBody)
    \/ \E generated \in GeneratedContents :
           currentContentId <= MaxContent /\ ProviderReturns(1, generated, now)
    \/ \E id \in 1..MaxContent : DeleteContentById(id)

SpecCounters == Init /\ [][NextCounters]_vars

\* bodies of POST /api/content/optimize
OptimizeBodies ==
    {[content |-> "C", fromPlatform |-> "youtube", toPlatform |-> "twitter"],
     [content |-> "", fromPlatform |-> "youtube", toPlatform |-> "twitter"]}

\* the read operations of MemStorage through their callers (the routes, and
\* calls of getUser and getUserByUsername, which no route makes), next to
\* the creates and the delete that give them something to read
NextStorage ==
    \/ currentUserId <= MaxCreated /\ CreateUser([username |-> "ann", password |-> "pw"])
    \/ \E insertTemplate \in InsertTemplates :
           /\ Len(contentTemplates) < Len(defaultTemplates) + MaxCreated
           /\ CreateContentTemplate(insertTemplate)
    \/ \E body \in PostBodies, t \in Times :
           currentContentId <= MaxContent /\ PostContent(body, t)
    \/ \E id \in 1..MaxContent : DeleteContentById(id)
    \/ \E id \in 0..MaxCreated : GetUser(id)
    \/ \E username \in {"ann", "zed"} : GetUserByUsername(username)
    \/ \E platform \in {Missing, "youtube", "mastodon"} : GetTemplates(platform)
    \/ GetContentList
    \/ GetStats
    \/ \E id \in 0..MaxContent : GetContentById(id)

SpecStorage == Init /\ [][NextStorage]_vars

\* the routes that write the store, the route that reads the templates and
\* createContentTemplate called after construction; one generation request
\* at a time and without uploads, title updates only, the clock standing
\* still
NextTemplates ==
    \/ \E insertTemplate \in InsertTemplates :
           /\ Len(contentTemplates) < Len(defaultTemplates) + MaxCreated
           /\ CreateContentTemplate(insertTemplate)
    \/ \E platform \in {Missing, "youtube", "mastodon"} : GetTemplates(platform)
    \/ \E body \in PostBodies : currentContentId <= MaxContent /\ PostContent(body, now)
    \/ \E id \in 0..MaxContent :
           updates < MaxUpdates /\ PutContent(id, [title |-> "T2"])
    \/ \E id \in 1..MaxContent : DeleteContentById(id)
    \/ \E body \in GenerateBodies \ {BodyWithImage} : Generate(1, body)
    \/ \E generated \in GeneratedContents :
           currentContentId <= MaxContent /\ ProviderReturns(1, generated, now)
    \/ ProviderThrows(1)

SpecTemplates == Init /\ [][NextTemplates]_vars

\* the routes of the server that call the provider or read the templates,
\* next to the content routes
NextApi ==
    \/ NextRoutes
    \/ \E platform \in {Missing, "youtube", "mastodon"} : GetTemplates(platform)
    \/ \E file \in {Missing, "image/png"}, resolves \in BOOLEAN : AnalyzeImage(file, resolves)
    \/ \E body \in OptimizeBodies, resolves \in BOOLEAN : OptimizeContent(body, resolves)

SpecApi == Init /\ [][NextApi]_vars

\* ----------------------------------------------------------- the client
\* FileUpload's maxFiles = 5
maxFiles == 5

\* image files the user can pick
Files == {"a.png", "b.png"}

\* what one drop hands to onDrop as acceptedFiles: nothing (all rejected),
\* one file or two
AcceptedFiles ==
    {<<>>} \cup {<<f>> : f \in Files} \cup {<<f, g>> : f \in Files, g \in Files}

\* array.slice(0, n)
Slice(s, n) == SubSeq(s, 1, IF Len(s) < n THEN Len(s) ELSE n)

\* files.filter((_, i) => i !== index), index counted from 1
WithoutIndex(s, index) ==
    [i \in 1..(Len(s) - 1) |-> IF i < index THEN s[i] ELSE s[i + 1]]

\* FileUpload.onDrop; the dropzone is disabled once maxFiles files are held
\* and rejects a drop of more files than are still allowed
onDrop(acceptedFiles) ==
    /\ Len(uploadFiles) < maxFiles
    /\ Len(acceptedFiles) <= maxFiles - Len(uploadFiles)
    /\ uploadFiles' = Slice(uploadFiles \o acceptedFiles, maxFiles)
    /\ formFiles' = Slice(uploadFiles \o acceptedFiles, maxFiles)
    /\ UNCHANGED <<mutation, server>>

\* FileUpload.removeFile, the button on a displayed file
removeFile(index) ==
    /\ index \in 1..Len(uploadFiles)
    /\ uploadFiles' = WithoutIndex(uploadFiles, index)
    /\ formFiles' = WithoutIndex(uploadFiles, index)
    /\ UNCHANGED <<mutation, server>>

\* ContentForm.onSubmit with a form that passes contentFormSchema; the
\* button is disabled while the mutation is pending
onSubmit ==
    /\ mutation.status = "idle"
    /\ mutation' = [status |-> "pending", images |-> formFiles]
    /\ UNCHANGED <<formFiles, uploadFiles, server>>

\* generateContentMutation.onSuccess: form.reset(); setFiles([])
onSuccess ==
    /\ mutation.status = "pending"
    /\ formFiles' = <<>>
    /\ mutation' = [status |-> "idle"]
    /\ UNCHANGED <<uploadFiles, server>>

\* generateContentMutation.onError: a toast, the form stays as it is
onError ==
    /\ mutation.status = "pending"
    /\ mutation' = [status |-> "idle"]
    /\ UNCHANGED <<formFiles, uploadFiles, server>>

\* the create-content page: drops, removals, submissions and their outcomes
NextClient ==
    \/ \E acceptedFiles \in AcceptedFiles : onDrop(acceptedFiles)
    \/ \E index \in 1..maxFiles : removeFile(index)
    \/ onSubmit
    \/ onSuccess
    \/ onError

SpecClient == Init /\ [][NextClient]_vars

\* ================================================================ claims
GenerateRoute == "POST /api/content/generate"

\* ------------------------------------------------------------------ C1
\* C1: a step of the generation handler that ends a request whose provider
\* call was rejected answers 500 and leaves the content map and the content
\* id counter as they were; so does the step that suspends the request on
\* the provider.
C1_ProviderFailurePersistsNothing ==
    [][/\ (res'.op = GenerateRoute /\ res'.provider = "rejected")
            => (res'.status = 500 /\ content' = content
                /\ currentContentId' = currentContentId)
       /\ (\E r \in Requests : req[r] = Idle /\ req'[r] # Idle)
            => (content' = content /\ currentContentId' = currentContentId)]_vars

\* a provider failure answered while the store holds a record
C1_Witness ==
    /\ res.op = GenerateRoute
    /\ res.provider = "rejected"
    /\ res.status = 500
    /\ Len(content) >= 1

\* ------------------------------------------------------------------ C2
\* platform, contentType or brief is absent or empty
Defective(body) ==
    \E f \in {"platform", "contentType", "brief"} : body[f] \in {Missing, ""}

\* C2: a generation request with platform, contentType or brief absent or
\* empty is answered 400 with no call to the provider and no change to the
\* store, and no request with such a body is ever waiting on the provider.
C2_DefectiveRequestRejectedBeforeProvider ==
    [][/\ (res'.op = GenerateRoute /\ Defective(res'.arg))
            => (res'.status = 400 /\ res'.calls = 0 /\ res'.provider = "none"
                /\ content' = content /\ currentContentId' = currentContentId
                /\ req' = req)
       /\ \A r \in Requests : req'[r] # Idle => ~Defective(req'[r].body)]_vars

\* a request without brief was answered while the store holds a record
C2_Witness ==
    /\ res.op = GenerateRoute
    /\ res.arg.brief = Missing
    /\ res.status = 400
    /\ Len(content) >= 1

\* ------------------------------------------------------------------ C3
\* C3: the ids createContent has returned are pairwise different, and no id
\* whose record was deleted is the key of a record in the store.
C3_IdsUniqueNeverReused ==
    /\ \A i, j \in 1..Len(issued) : issued[i] = issued[j] => i = j
    /\ \A id \in deleted : ~MapHas(content, id)

\* a record was created after two ids were issued and one of them deleted
C3_Witness ==
    /\ res.op = "POST /api/content"
    /\ res.status = 201
    /\ Len(issued) = 2
    /\ deleted # {}
    /\ MapHas(content, res.body.id)

\* ------------------------------------------------------------------ C4
\* C4: every record stored under key k has id k.
C4_IdEqualsKey ==
    \A i \in 1..Len(content) : content[i].v.id = content[i].k

\* ------------------------------------------------------------------ C5
\* C5: a record that stays in the store keeps its createdAt in every step.
C5_CreatedAtNeverChanges ==
    [][\A k \in MapKeys(content) \cap MapKeys(content') :
          MapGet(content', k).createdAt = MapGet(content, k).createdAt]_vars

\* ------------------------------------------------------------------ C6
\* C6: right after createContent returned a record, getContent of the
\* returned id yields that record.
C6_CreateThenGet ==
    (res.op = "POST /api/content" /\ res.status = 201)
        => getContent(res.body.id) = res.body

\* a second record was created and answered
C6_Witness ==
    /\ res.op = "POST /api/content"
    /\ res.status = 201
    /\ Len(content) = 2

\* ------------------------------------------------------------------ C7
\* C7: getContent of an id that is not a key of the map, deleted ids
\* included, is undefined; GET /api/content/:id leaves the store as it was
\* and answers 404 "Content not found" for an id that is not in the store.
C7_GetMissingIsNotFound ==
    /\ [](\A id \in (0..MaxContent) \cup deleted :
             ~MapHas(content, id) => getContent(id) = undefined)
    /\ [][res'.op = "GET /api/content/:id"
             => /\ content' = content
                /\ currentContentId' = currentContentId
                /\ ~MapHas(content, res'.arg)
                     => (res'.status = 404 /\ res'.body = Error("Content not found"))]_vars

\* GET of a deleted id was answered 404
C7_Witness ==
    /\ res.op = "GET /api/content/:id"
    /\ res.arg \in deleted
    /\ res.status = 404

\* ------------------------------------------------------------------ C8
Owners == {MockUserId, OtherUserId}

\* the sum of the values of an object, NaN unless all of them are numbers
SumOfValues(obj) ==
    LET keys == DOMAIN obj
        S[ks \in SUBSET keys] ==
            IF ks = {} THEN 0
            ELSE LET k == CHOOSE x \in ks : TRUE IN obj[k].v + S[ks \ {k}]
    IN  IF \A k \in keys : IsNumber(obj[k]) /\ ~obj[k].nan THEN Number(S[keys]) ELSE NaN

\* C8: for every owner, totalContent of getContentStats is the length of
\* getContentByUserId and the values of byPlatform add up to totalContent.
C8_StatsAgreeWithListing ==
    \A owner \in Owners :
        \A stats \in getContentStats(owner), list \in getContentByUserId(owner) :
            /\ stats.totalContent = Len(list)
            /\ SumOfValues(stats.byPlatform) = Number(stats.totalContent)

\* ------------------------------------------------------------------ C9
\* as many copies of each record in the array as the map holds for the owner
SameRecords(list, owner) ==
    /\ Len(list) = Len(Filter(MapValues(content), OwnedBy(owner)))
    /\ Range(list) = OwnedBy(owner)

\* createdAt x is a later instant than createdAt y
Later(x, y) == x # InvalidDate /\ y # InvalidDate /\ x > y

\* C9: getContentByUserId returns exactly the owner's records, and of any
\* two returned records the one with the later createdAt comes first.
C9_ListingNewestFirst ==
    \A owner \in Owners :
        \A list \in getContentByUserId(owner) :
            /\ SameRecords(list, owner)
            /\ \A i, j \in 1..Len(list) :
                   Later(list[i].createdAt, list[j].createdAt) => i < j

\* ------------------------------------------------------------------ C10
\* where in the map's insertion order a record of the listing is held
InsertionIndex(record) ==
    CHOOSE i \in 1..Len(content) : content[i].v = record

\* C10: two returned records of one owner with equal createdAt come in the
\* order in which they were inserted, updated or not.
C10_TiesInInsertionOrder ==
    \A owner \in Owners :
        \A list \in getContentByUserId(owner) :
            \A i, j \in 1..Len(list) :
                (i < j /\ list[i].createdAt = list[j].createdAt)
                    => InsertionIndex(list[i]) < InsertionIndex(list[j])

\* ------------------------------------------------------------------ C11
\* C11: a PUT whose id is not a key of the map answers 404 "Content not
\* found", and the map (its keys, its records, their order) and the content
\* id counter are after the step what they were before it.
C11_UpdateMissingIsNotFound ==
    [][(res'.op = "PUT /api/content/:id" /\ ~MapHas(content, res'.arg.id))
          => /\ res'.status = 404
             /\ res'.body = Error("Content not found")
             /\ content' = content
             /\ currentContentId' = currentContentId]_vars

\* a PUT of a deleted id was answered 404 while the store holds a record
C11_Witness ==
    /\ res.op = "PUT /api/content/:id"
    /\ res.status = 404
    /\ res.arg.id \in deleted
    /\ Len(content) >= 1

\* ------------------------------------------------------------------ C12
\* C12: a PUT whose id is a key of the map answers 200 with a record that
\* has, for every field of the body, the body's value and, for every other
\* field of the stored record, the stored value, and no further field; the
\* map then holds that record under the id, at the same position, and every
\* other entry as before.
C12_UpdateMergesFields ==
    [][(res'.op = "PUT /api/content/:id" /\ MapHas(content, res'.arg.id))
          => LET id == res'.arg.id
                 body == res'.arg.updates
                 old == MapGet(content, id)
             IN  /\ res'.status = 200
                 /\ DOMAIN res'.body = (DOMAIN old) \cup (DOMAIN body)
                 /\ \A f \in DOMAIN body : res'.body[f] = body[f]
                 /\ \A f \in (DOMAIN old) \ (DOMAIN body) : res'.body[f] = old[f]
                 /\ MapHas(content', id) /\ MapGet(content', id) = res'.body
                 /\ Len(content') = Len(content)
                 /\ \A i \in 1..Len(content) :
                        /\ content'[i].k = content[i].k
                        /\ content[i].k # id => content'[i] = content[i]]_vars

\* a title-only update of one of two records was answered
C12_Witness ==
    /\ res.op = "PUT /api/content/:id"
    /\ res.status = 200
    /\ res.arg.updates = [title |-> "T2"]
    /\ Len(content) = 2
    /\ getContent(res.arg.id) = res.body
    /\ res.body.brief = "B"

\* ------------------------------------------------------------------ C13
\* C13: a DELETE answers 204 exactly when its id was a key of the map before
\* the step; the map then lacks that entry and holds every other entry in
\* the same order; it answers 404 otherwise and the map is as before; a
\* DELETE of an id that was deleted before answers 404.
C13_DeleteRemovesExactlyOne ==
    [][res'.op = "DELETE /api/content/:id"
          => LET id == res'.arg
             IN  /\ res'.status = (IF MapHas(content, id) THEN 204 ELSE 404)
                 /\ MapKeys(content') = MapKeys(content) \ {id}
                 /\ \A k \in MapKeys(content') : MapGet(content', k) = MapGet(content, k)
                 /\ Len(content') = Cardinality(MapKeys(content'))
                 /\ ~MapHas(content, id) => content' = content
                 /\ id \in deleted => res'.status = 404
                 /\ ~MapHas(content', id)
                 /\ currentContentId' = currentContentId]_vars

\* the second DELETE of an id was answered 404 while another record stays
C13_Witness ==
    /\ res.op = "DELETE /api/content/:id"
    /\ res.status = 404
    /\ res.arg \in deleted
    /\ Len(content) >= 1

\* ------------------------------------------------------------------ C14
\* a generation request was answered 200 in this step
Succeeded == res'.op = GenerateRoute /\ res'.status = 200

\* the keys the step added to the map
NewKeys == MapKeys(content') \ MapKeys(content)

\* C14: every generation request answered 200 has made a provider call of
\* its own and has added one record to the map, under an id that no record
\* holds and that was never issued before, whether or not the map already
\* holds a record made from the same input; the records already there
\* stay, so two such requests leave two records with two ids.
C14_EachSuccessAddsARecord ==
    [][Succeeded
          => /\ res'.calls = 1
             /\ res'.provider = "resolved"
             /\ Cardinality(NewKeys) = 1
             /\ NewKeys = {res'.body.id}
             /\ res'.body.id \notin Range(issued)
             /\ Len(content') = Len(content) + 1
             /\ \A k \in MapKeys(content) :
                    MapHas(content', k) /\ MapGet(content', k) = MapGet(content, k)]_vars

\* the second of two requests with the same input was answered: two
\* records with that input and two ids
C14_Witness ==
    /\ res.op = GenerateRoute
    /\ res.status = 200
    /\ Len(content) = 2
    /\ content[1].v.id # content[2].v.id
    /\ \A f \in {"brief", "platform", "contentType", "description", "title",
                   "generatedContent"} : content[1].v[f] = content[2].v[f]
    /\ content[2].v.brief = res.arg.brief

\* ------------------------------------------------------------------ C15
\* C15: a request that passed validation has called the provider once for
\* as long as it is waiting and when it is answered, 200 or 500; a waiting
\* request stays as it is until it is answered; a request answered 400 has
\* made no call.
C15_ProviderCalledOnce ==
    /\ [](\A r \in Requests : req[r] # Idle => req[r].calls = 1)
    /\ [](res.op = GenerateRoute
             => /\ res.status \in {200, 500} => res.calls = 1
                /\ res.status = 400 => res.calls = 0)
    /\ [][\A r \in Requests :
             (req[r] # Idle /\ req'[r] # Idle) => req'[r] = req[r]]_vars

\* a failed request was answered after one call while another one waits
C15_Witness ==
    /\ res.op = GenerateRoute
    /\ res.status = 500
    /\ res.calls = 1
    /\ \E r \in Requests : req[r] # Idle /\ req[r].calls = 1

C17_ResponseIsIdPlusGenerated ==
    [][Succeeded
          => /\ NewKeys = {res'.body.id}
             /\ MapGet(content', res'.body.id).id = res'.body.id
             /\ MapGet(content', res'.body.id).brief = res'.arg.brief
             /\ MapGet(content', res'.body.id).generatedContent = res'.result.content
             /\ DOMAIN res'.body = {"id", "title", "content", "hashtags", "metadata"}
             /\ \A f \in {"title", "content", "hashtags", "metadata"} :
                    res'.body[f] = res'.result[f]]_vars

\* the second record was answered with its id, not the first record's
C17_Witness ==
    /\ res.op = GenerateRoute
    /\ res.status = 200
    /\ res.body.id = 2
    /\ getContent(1) # undefined
    /\ getContent(2).generatedContent = res.body.content
    /\ getContent(1).generatedContent # res.body.content

\* ------------------------------------------------------------------ C20
\* how many maximal runs of non-whitespace characters a text has
TokenCount(text) ==
    Cardinality({i \in 1..Len(text) :
                    /\ text[i] \notin Whitespace
                    /\ (i = 1 \/ text[i - 1] \in Whitespace)})

\* C20: in a 200 answer of the generation route, metadata.wordCount is the
\* number of whitespace-delimited tokens of content and
\* metadata.characterCount is the length of content; the record the request
\* stored has the same two counts for its generatedContent.
C20_CountsComputedFromContent ==
    (res.op = GenerateRoute /\ res.status = 200)
        => /\ res.body.metadata.wordCount = TokenCount(res.body.content)
           /\ res.body.metadata.characterCount = Len(res.body.content)
           /\ getContent(res.body.id) # undefined
           /\ LET record == getContent(res.body.id)
              IN  /\ record.generatedContent = res.body.content
                  /\ record.metadata.wordCount = TokenCount(record.generatedContent)
                  /\ record.metadata.characterCount = Len(record.generatedContent)

\* the content for which the provider reported 7 words and 0 characters was
\* answered and stored with 2 words and 5 characters
C20_Witness ==
    /\ res.op = GenerateRoute
    /\ res.status = 200
    /\ res.body.content = <<" ", "a", " ", " ", "b">>
    /\ res.body.metadata.wordCount = 2
    /\ res.body.metadata.characterCount = 5
    /\ getContent(res.body.id).metadata = res.body.metadata

Posted == res'.op = "POST /api/content" /\ res'.status = 201

C19_CountersIndependent ==
    /\ \A k \in 1..Len(users) : users[k].k = k /\ users[k].v.id = k
    /\ \A k \in 1..Len(contentTemplates) :
           contentTemplates[k].k = k /\ contentTemplates[k].v.id = k
    /\ \A k \in 1..Len(issued) : issued[k] = k
    /\ currentUserId = Len(users) + 1
    /\ currentTemplateId = Len(contentTemplates) + 1
    /\ currentContentId = Len(issued) + 1
    /\ \A k \in 1..Len(defaultTemplates) :
           contentTemplates[k].v.name = defaultTemplates[k].name

\* the first user got id 1 after a template and two content records were
\* created and the first content record deleted
C19_Witness ==
    /\ res.op = "createUser"
    /\ res.body.id = 1
    /\ Len(users) = 1
    /\ Len(contentTemplates) = Len(defaultTemplates) + 1
    /\ issued = <<1, 2>>
    /\ deleted = {1}
    /\ MapKeys(content) = {2}

\* ------------------------------------------------------------------ C29
\* C29: the files ContentForm holds, which it sends with the next generation
\* request, are the files FileUpload holds and displays.
C29_FormFilesAreDisplayedFiles == formFiles = uploadFiles

\* ------------------------------------------------------------------ C21
\* C21: the k-th entry of the template map is the k-th default template
\* under id k, for each of the default templates; a step leaves every entry
\* of the template map as it is and in its place, and it adds an entry only
\* if it is a call of createContentTemplate.
C21_TemplatesOnlyGrow ==
    /\ [](\A k \in 1..Len(defaultTemplates) :
             /\ Len(contentTemplates) >= k
             /\ contentTemplates[k] =
                    [k |-> k, v |-> Spread(defaultTemplates[k], [id |-> k])])
    /\ [][/\ Len(contentTemplates') >= Len(contentTemplates)
          /\ \A i \in 1..Len(contentTemplates) : contentTemplates'[i] = contentTemplates[i]
          /\ Len(contentTemplates') > Len(contentTemplates)
                => res'.op = "createContentTemplate"]_vars

\* a template was added, a content record deleted and another one updated
C21_Witness ==
    /\ Len(contentTemplates) > Len(defaultTemplates)
    /\ res.op = "PUT /api/content/:id"
    /\ res.status = 200
    /\ deleted # {}
    /\ contentTemplates[1].v.name = "YouTube Tutorial"

\* ------------------------------------------------------------------ C22
AnalyzeRoute == "POST /api/images/analyze"

\* C22: an answer of POST /api/images/analyze is 200 with an analysis or 500.
C22_AnalyzeAnswers200Or500 ==
    res.op = AnalyzeRoute
        => \/ res.status = 200 /\ DOMAIN res.body = {"analysis"}
           \/ res.status = 500

\* C22, amended: an answer of POST /api/images/analyze is 400 "No image file
\* provided" exactly when the request has no image part; otherwise it is 200
\* with an analysis or 500 with an error.
C22_AnalyzeAnswers200Or400Or500 ==
    res.op = AnalyzeRoute
        => /\ res.status \in {200, 400, 500}
           /\ res.status = 400 <=> res.arg = Missing
           /\ res.status = 400 => res.body = Error("No image file provided")
           /\ res.status = 200 => DOMAIN res.body = {"analysis"}
           /\ res.status = 500 => DOMAIN res.body = {"error"}

\* a request without an image part was answered 400
C22_Witness ==
    /\ res.op = AnalyzeRoute
    /\ res.arg = Missing
    /\ res.status = 400
    /\ Len(content) >= 1

\* ------------------------------------------------------------------ C30
\* the callers of the read operations of MemStorage
ReadOperations ==
    {"GET /api/content", "GET /api/content/:id", "GET /api/analytics/stats",
     "GET /api/templates", "getUser", "getUserByUsername"}

\* C30: a step that is a call of getContent, getContentByUserId,
\* getContentStats, getContentTemplates, getContentTemplatesByPlatform,
\* getUser or getUserByUsername leaves the three maps, with the order of
\* their entries, and the three counters as they were.
C30_ReadsLeaveStoreUnchanged ==
    [][res'.op \in ReadOperations
          => /\ users' = users
             /\ content' = content
             /\ contentTemplates' = contentTemplates
             /\ currentUserId' = currentUserId
             /\ currentContentId' = currentContentId
             /\ currentTemplateId' = currentTemplateId]_vars

\* a listing was answered newest first while the map holds the two records
\* oldest first, with a user and an added template in the store
C30_Witness ==
    /\ res.op = "GET /api/content"
    /\ Len(res.body) = 2
    /\ Len(content) = 2
    /\ res.body[1] = content[2].v
    /\ res.body[1].createdAt > res.body[2].createdAt
    /\ Len(users) >= 1
    /\ Len(contentTemplates) > Len(defaultTemplates)

\* ------------------------------------------------------------------ C23
\* request r passed validation in this step and now waits on the provider
Started(r) == req[r] = Idle /\ req'[r] # Idle

\* request r was waiting on the provider and was answered in this step
Ended(r) == req[r] # Idle /\ req'[r] = Idle

\* C23: a request reaches Invoking only from validation, with one provider
\* call, no answer and no store write; it leaves Invoking only by being
\* answered, either 200 after exactly one store write (Persisting, Complete)
\* or 500 with no store write (Errored); an answer 400 comes from validation
\* alone, with no provider call and no store write (Errored); an answered
\* request is gone: the only later change of its slot is a new request
\* passing validation; a step moves one request at most.
C23_PipelineStates ==
    [][/\ \A r \in Requests :
              Started(r)
                  => /\ req'[r].state = "Invoking" /\ req'[r].calls = 1
                     /\ RequiredFieldsPresent(req'[r].body)
                     /\ res' = NoResponse
                     /\ content' = content /\ currentContentId' = currentContentId
       /\ \A r \in Requests :
              (req[r] # Idle /\ req'[r] # req[r])
                  => /\ Ended(r)
                     /\ res'.op = GenerateRoute /\ res'.arg = req[r].body
                     /\ res'.calls = req[r].calls
                     /\ \/ /\ res'.status = 200 /\ res'.provider = "resolved"
                           /\ Cardinality(NewKeys) = 1
                        \/ /\ res'.status = 500 /\ res'.provider = "rejected"
                           /\ content' = content /\ currentContentId' = currentContentId
       /\ res'.op = GenerateRoute
              => /\ res'.status \in {200, 400, 500}
                 /\ res'.status = 400
                      => /\ req' = req /\ res'.calls = 0 /\ res'.provider = "none"
                         /\ content' = content /\ currentContentId' = currentContentId
                 /\ res'.status \in {200, 500} => \E r \in Requests : Ended(r)
       /\ Cardinality({r \in Requests : req'[r] # req[r]}) <= 1]_vars

\* a request was answered 200 while the other one waits on the provider
C23_Witness ==
    /\ res.op = GenerateRoute
    /\ res.status = 200
    /\ res.provider = "resolved"
    /\ \E r \in Requests : req[r] # Idle /\ req[r].state = "Invoking"
    /\ \E r \in Requests : req[r] = Idle
    /\ getContent(res.body.id) # undefined

\* ------------------------------------------------------------------ C24
\* a request other than the one that was answered waits before and after
OtherInFlight == \E r \in Requests : req[r] # Idle /\ req'[r] # Idle

\* C24: a request answered 200 while another one is in flight appends one
\* entry, under an id that is no key of the map and was never issued, keeps
\* every entry the map held in its place, and leaves the waiting request as
\* it is; the keys of the map are pairwise different and the map holds as
\* many records as requests succeeded, less the records deleted.
C24_ConcurrentRequestsBothAppend ==
    /\ [](/\ \A i, j \in 1..Len(content) : content[i].k = content[j].k => i = j
          /\ Len(content) + Cardinality(deleted) = Len(issued))
    /\ [][(Succeeded /\ OtherInFlight)
             => /\ Len(content') = Len(content) + 1
                /\ SubSeq(content', 1, Len(content)) = content
                /\ content'[Len(content')].k = res'.body.id
                /\ res'.body.id \notin MapKeys(content) \cup Range(issued)
                /\ \A r \in Requests : (req[r] # Idle /\ req'[r] # Idle) => req'[r] = req[r]]_vars

\* the second record was appended while the other request is in flight
C24_Witness ==
    /\ res.op = GenerateRoute
    /\ res.status = 200
    /\ res.body.id = 2
    /\ Len(content) = 2
    /\ content[1].v.brief # content[2].v.brief
    /\ \E r \in Requests : req[r] # Idle

\* ------------------------------------------------------------------ C25
\* C25: the content id counter and the list of issued ids change only in the
\* step that answers a request 200, never in a step that leaves a request
\* waiting; that step takes the counter's value of that moment as the id and
\* the clock's reading of that moment as createdAt; so the ids issued
\* increase in the order in which the requests complete.
C25_IdAssignedWhenPersisting ==
    /\ [](\A i, j \in 1..Len(issued) : i < j => issued[i] < issued[j])
    /\ [][/\ (currentContentId' # currentContentId \/ issued' # issued) => Succeeded
          /\ (\E r \in Requests : Started(r))
                => (currentContentId' = currentContentId /\ issued' = issued)
          /\ Succeeded
                => /\ res'.body.id = currentContentId
                   /\ issued' = Append(issued, currentContentId)
                   /\ currentContentId' = currentContentId + 1
                   /\ MapGet(content', res'.body.id).createdAt = now'
                   /\ \A k \in MapKeys(content) :
                          MapGet(content, k).createdAt <= now']_vars

\* the request with the image got id 1 while the other request still waits
C25_Witness ==
    /\ res.op = GenerateRoute
    /\ res.status = 200
    /\ res.arg = BodyWithImage
    /\ res.body.id = 1
    /\ \E r \in Requests : req[r] # Idle /\ req[r].body = CompleteBody
    /\ currentContentId = 2

\* ------------------------------------------------------------------ C26
\* C26: a request that waits on the provider stops waiting only in a step in
\* which the provider's call resolved or was rejected, whatever else
\* happens, and a record is stored only in such a step; when the provider
\* answers every call in the end, every waiting request is answered in the
\* end.
C26_PendingUntilProviderAnswers ==
    /\ [][\A r \in Requests :
             (req[r] # Idle /\ req'[r] # req[r])
                 => /\ req'[r] = Idle
                    /\ res'.op = GenerateRoute
                    /\ res'.provider \in {"resolved", "rejected"}]_vars
    /\ [][issued' # issued
             => /\ res'.provider = "resolved"
                /\ \E r \in Requests : req[r] # Idle /\ req'[r] = Idle]_vars
    /\ \A r \in Requests : (req[r] # Idle) ~> (req[r] = Idle)

\* a request still waits after the other request slot has stored as many
\* records as the run allows and one of them was deleted
C26_Witness ==
    /\ \E r \in Requests : req[r] # Idle
    /\ Len(issued) = MaxContent
    /\ res.op = "DELETE /api/content/:id"
    /\ res.status = 204

\* ------------------------------------------------------------------ C27
\* the handler that ran in this step answered with an error
Failed == res'.status \in {400, 404, 500}

\* the request slots the step changed
Moved == {r \in Requests : req'[r] # req[r]}

\* C27: a step that answers 400, 404 or 500 leaves the users, the templates,
\* the content map, the id counter and the ids issued and deleted as they
\* were, and changes no request in flight except, for a 500 of the
\* generation route, the one request it answers; the part of a generation
\* request that runs before the provider is called changes no store either,
\* so whatever another request reads or writes afterwards is what it would
\* have read or written without the failing request.
C27_FailureIsIsolated ==
    [][/\ Failed
            => /\ UNCHANGED <<usersAndTemplates, content, currentContentId, issued, deleted>>
               /\ Cardinality(Moved) <= 1
               /\ \A r \in Moved :
                      /\ req[r].state = "Invoking"
                      /\ req'[r] = Idle
                      /\ res'.op = GenerateRoute
                      /\ res'.status = 500
                      /\ res'.arg = req[r].body
       /\ (\E r \in Requests : Started(r))
            => /\ UNCHANGED <<usersAndTemplates, content, currentContentId, issued, deleted>>
               /\ Cardinality(Moved) = 1]_vars

\* the provider rejected one request while the other one still waits and
\* the map holds a record
C27_Witness ==
    /\ res.op = GenerateRoute
    /\ res.status = 500
    /\ \E r \in Requests : req[r] # Idle
    /\ Len(content) > 0
    /\ deleted # {}

\* ------------------------------------------------------------------ C28
\* C28: every record of the map belongs to user 1, every array GET
\* /api/content can return holds each record of the map (so each record GET
\* /api/content/:id finds is in it), and the statistics count them all.
C28_EveryRecordOwnedByUserOne ==
    /\ \A i \in 1..Len(content) : content[i].v.userId = MockUserId
    /\ \A list \in getContentByUserId(MockUserId) :
           \A id \in MapKeys(content) :
               \E j \in 1..Len(list) : list[j] = getContent(id)
    /\ \A stats \in getContentStats(MockUserId) : stats.totalContent = Len(content)

====
